---- MODULE Spec2Model ----
(***************************************************************************)
(* A model of khal/aux.py: the token-consuming date/time parsers           *)
(* (timefstr, datetimefstr, guessdatetimefstr), the event assembler        *)
(* construct_event and the quick constructor new_event.                    *)
(*                                                                         *)
(* A token is the text of one command-line word.  The model keeps, for     *)
(* each token, what a strptime format can read from it: its lexical kind   *)
(* ("md" a date without a year, "ymd" a date with a year, "hm" a time of   *)
(* day, "word" anything else) and the numbers it spells.  Tokens hold no   *)
(* blanks.  A format is the sequence of the kinds of its blank-separated   *)
(* parts, so that format.count(' ') + 1 is its length.                     *)
(***************************************************************************)
EXTENDS Integers, Sequences, FiniteSets, TLC

(***************************************************************************)
(* datetime arithmetic (datetime, timedelta of the standard library)       *)
(***************************************************************************)

\* the year strptime fills in when the format names none
PlaceholderYear == 1900

IsLeap(y) == (y % 4 = 0) /\ ((y % 100 # 0) \/ (y % 400 = 0))

DaysInMonth(y, m) ==
    IF m = 2 THEN (IF IsLeap(y) THEN 29 ELSE 28)
    ELSE IF m \in {4, 6, 9, 11} THEN 30 ELSE 31

\* datetime(...) raises ValueError for a day the month does not have
ValidDate(y, m, d) == m \in 1..12 /\ d >= 1 /\ d <= DaysInMonth(y, m)

RECURSIVE DaysBeforeMonth(_, _)
DaysBeforeMonth(y, m) ==
    IF m <= 1 THEN 0 ELSE DaysBeforeMonth(y, m - 1) + DaysInMonth(y, m - 1)

DaysBeforeYear(y) ==
    LET p == y - 1 IN p * 365 + (p \div 4) - (p \div 100) + (p \div 400)

\* date.toordinal(): 0001-01-01 is day 1
ToOrdinal(y, m, d) == DaysBeforeYear(y) + DaysBeforeMonth(y, m) + d

MkDatetime(y, m, d, H, M) ==
    [year |-> y, month |-> m, day |-> d, hour |-> H, minute |-> M]

\* the year of date.fromordinal(n)
YearOfOrdinal(n) ==
    CHOOSE c \in (n \div 366)..((n \div 365) + 1) :
        DaysBeforeYear(c) < n /\ n <= DaysBeforeYear(c + 1)

\* the month holding the r-th day of year y
MonthOfYearDay(y, r) ==
    CHOOSE c \in 1..12 :
        DaysBeforeMonth(y, c) < r /\ r <= DaysBeforeMonth(y, c) + DaysInMonth(y, c)

\* the r-th day of year y, at H:M
YearDay(y, m, r, H, M) == MkDatetime(y, m, r - DaysBeforeMonth(y, m), H, M)

DayOfYear(y, n, H, M) ==
    YearDay(y, MonthOfYearDay(y, n - DaysBeforeYear(y)), n - DaysBeforeYear(y), H, M)

\* datetime.combine(date.fromordinal(n), time(H, M))
FromOrdinal(n, H, M) == DayOfYear(YearOfOrdinal(n), n, H, M)

\* minutes since the start of day 0: the order of naive datetimes
Minutes(dt) == ToOrdinal(dt.year, dt.month, dt.day) * 1440 + dt.hour * 60 + dt.minute

\* dt1 < dt2 on naive datetimes
DtLess(a, b) == Minutes(a) < Minutes(b)

\* the naive datetime t minutes after the start of day 0
FromMinutes(t) == FromOrdinal(t \div 1440, (t % 1440) \div 60, t % 60)

\* dt + timedelta(minutes=n)
AddMinutes(dt, n) == FromMinutes(Minutes(dt) + n)

\* dt + timedelta(days=n)
AddDays(dt, n) == AddMinutes(dt, n * 1440)

\* dt.date(): the civil date, time of day dropped
DateOf(dt) == [year |-> dt.year, month |-> dt.month, day |-> dt.day]

\* a datetime variable that holds nothing yet
NoDatetime == MkDatetime(0, 0, 0, 0, 0)

(***************************************************************************)
(* tokens and formats                                                      *)
(***************************************************************************)

Tok(k, y, m, d, H, M, s) ==
    [kind |-> k, year |-> y, month |-> m, day |-> d, hour |-> H, minute |-> M, text |-> s]

Md(m, d) == Tok("md", 0, m, d, 0, 0, "")
Ymd(y, m, d) == Tok("ymd", y, m, d, 0, 0, "")
Hm(H, M) == Tok("hm", 0, 0, 0, H, M, "")
Word(s) == Tok("word", 0, 0, 0, 0, 0, s)

\* the five formats of a locale whose short formats name no year,
\* e.g. %H:%M, %d.%m., %d.%m.%Y, %d.%m. %H:%M, %d.%m.%Y %H:%M
DottedLocale ==
    [timeformat |-> <<"hm">>,
     dateformat |-> <<"md">>, longdateformat |-> <<"ymd">>,
     datetimeformat |-> <<"md", "hm">>, longdatetimeformat |-> <<"ymd", "hm">>]

\* the five formats of a locale whose short formats name the year too,
\* e.g. %H:%M, %Y-%m-%d, %Y-%m-%d, %Y-%m-%d %H:%M, %Y-%m-%d %H:%M
IsoLocale ==
    [timeformat |-> <<"hm">>,
     dateformat |-> <<"ymd">>, longdateformat |-> <<"ymd">>,
     datetimeformat |-> <<"ymd", "hm">>, longdatetimeformat |-> <<"ymd", "hm">>]

\* dtformat.count(' ') + 1
Parts(dtformat) == Len(dtformat)

\* date_list[0:parts]
Front(date_list, parts) ==
    SubSeq(date_list, 1, IF parts < Len(date_list) THEN parts ELSE Len(date_list))

\* the token of front that spells the date (strptime's 1 January for none)
DatePart(front) ==
    IF \E i \in 1..Len(front) : front[i].kind \in {"md", "ymd"}
    THEN front[CHOOSE i \in 1..Len(front) : front[i].kind \in {"md", "ymd"}]
    ELSE Ymd(PlaceholderYear, 1, 1)

\* the token of front that spells the time of day (strptime's 00:00 for none)
TimePart(front) ==
    IF \E i \in 1..Len(front) : front[i].kind = "hm"
    THEN front[CHOOSE i \in 1..Len(front) : front[i].kind = "hm"]
    ELSE Hm(0, 0)

\* the year strptime reads: the typed one, or the placeholder
YearPart(dp) == IF dp.kind = "ymd" THEN dp.year ELSE PlaceholderYear

\* the joined text has the format's parts, each of the format's kind
Shaped(front, dtformat) ==
    /\ Len(front) = Len(dtformat)
    /\ \A i \in 1..Len(front) : front[i].kind = dtformat[i]

\* the datetime strptime builds from what it read: ValueError for a day
\* the month does not have
Parsed(y, dp, tp) ==
    IF ValidDate(y, dp.month, dp.day)
    THEN [ok |-> TRUE, dt |-> MkDatetime(y, dp.month, dp.day, tp.hour, tp.minute)]
    ELSE [ok |-> FALSE, dt |-> NoDatetime]

\* strptime(' '.join(front), dtformat); a field the format does not name
\* gets strptime's default
Strptime(front, dtformat) ==
    IF Shaped(front, dtformat)
    THEN Parsed(YearPart(DatePart(front)), DatePart(front), TimePart(front))
    ELSE [ok |-> FALSE, dt |-> NoDatetime]

\* what a parser hands back: the exception it raised ("none" for a
\* return), the datetime it returned, what strptime read before any field
\* was replaced, and the list as the call left it
Returned(dt, typed, date_list) ==
    [exc |-> "none", dt |-> dt, typed |-> typed, list |-> date_list]

Raised(exc, date_list) ==
    [exc |-> exc, dt |-> NoDatetime, typed |-> NoDatetime, list |-> date_list]

\* date_list.pop(0), n times
RECURSIVE PopN(_, _)
PopN(date_list, n) ==
    IF n = 0 THEN [exc |-> "none", list |-> date_list]
    ELSE IF date_list = <<>> THEN [exc |-> "IndexError", list |-> date_list]
    ELSE PopN(Tail(date_list), n - 1)

\* datetime.combine(day, time(H, M)), datetime(*(day[:3] + time[3:5]))
OnDay(day, time) == MkDatetime(day.year, day.month, day.day, time.hour, time.minute)

\* timefstr after time.strptime: the time on day_start, date_list.pop(0)
TimeRead(time_start, date_list, day_start) ==
    IF ~time_start.ok THEN Raised("ValueError", date_list)
    ELSE Returned(OnDay(day_start, time_start.dt), time_start.dt, Tail(date_list))

timefstr(date_list, timeformat, day_start) ==
    IF date_list = <<>> THEN Raised("IndexError", date_list)
    ELSE TimeRead(Strptime(<<date_list[1]>>, timeformat), date_list, day_start)

\* datetimefstr after datetime.strptime: the pops
DatetimeRead(dtstart, popped, date_list) ==
    IF ~dtstart.ok THEN Raised("ValueError", date_list)
    ELSE IF popped.exc # "none" THEN Raised(popped.exc, popped.list)
    ELSE Returned(dtstart.dt, dtstart.dt, popped.list)

datetimefstr(date_list, dtformat) ==
    DatetimeRead(Strptime(Front(date_list, Parts(dtformat)), dtformat),
                 PopN(date_list, Parts(dtformat)), date_list)

\* timefstr_day without its second line: the time stays on today
timefstr_today(date_list, timeformat, default_day, day_start) ==
    timefstr(date_list, timeformat, day_start)

\* timefstr_day after timefstr: the time on default_day
OnDefaultDay(date, default_day) ==
    IF date.exc # "none" THEN date
    ELSE Returned(OnDay(default_day, date.dt), date.typed, date.list)

timefstr_day(date_list, timeformat, default_day, day_start) ==
    OnDefaultDay(timefstr(date_list, timeformat, day_start), default_day)

\* datefstr_year after datetimefstr: the year of default_day, ValueError
\* for a day that year does not have
InDefaultYear(date, default_day) ==
    IF date.exc # "none" THEN date
    ELSE IF ~ValidDate(default_day.year, date.dt.month, date.dt.day)
    THEN Raised("ValueError", date.list)
    ELSE Returned(MkDatetime(default_day.year, date.dt.month, date.dt.day,
                             date.dt.hour, date.dt.minute),
                  date.typed, date.list)

datefstr_year(date_list, dateformat, default_day) ==
    InDefaultYear(datetimefstr(date_list, dateformat), default_day)

\* the all_day flag of the i-th (fun, dtformat, all_day) of the loop
AllDayRule(i) == i \in {4, 5}

\* the format of the i-th (fun, dtformat, all_day) of the loop
RuleFormat(locale, i) ==
    CASE i = 1 -> locale.datetimeformat
      [] i = 2 -> locale.longdatetimeformat
      [] i = 3 -> locale.timeformat
      [] i = 4 -> locale.dateformat
      [] i = 5 -> locale.longdateformat

\* fun(dtime_list, dtformat) of the i-th (fun, dtformat, all_day) of the loop
TryRule(i, dtime_list, locale, default_day, day_start) ==
    CASE i = 1 -> datefstr_year(dtime_list, locale.datetimeformat, default_day)
      [] i = 2 -> datetimefstr(dtime_list, locale.longdatetimeformat)
      [] i = 3 -> timefstr_day(dtime_list, locale.timeformat, default_day, day_start)
      [] i = 4 -> datefstr_year(dtime_list, locale.dateformat, default_day)
      [] i = 5 -> datetimefstr(dtime_list, locale.longdateformat)

\* what guessdatetimefstr hands back: a parser's result with the all_day
\* flag and the number of the loop entry that returned (0 for none)
Guessed(r, i) ==
    [exc |-> r.exc, dt |-> r.dt, typed |-> r.typed, list |-> r.list,
     all_day |-> r.exc = "none" /\ AllDayRule(i),
     rule |-> IF r.exc = "none" THEN i ELSE 0]

\* the loop of guessdatetimefstr from its i-th entry on, r being what that
\* entry's parser did: a ValueError moves on to the next entry with the
\* list as the failed entry left it, any other exception leaves the
\* function, and the end of the loop raises ValueError
RECURSIVE GuessFrom(_, _, _, _, _)
GuessFrom(i, r, locale, default_day, day_start) ==
    IF r.exc # "ValueError" THEN Guessed(r, i)
    ELSE IF i = 5 THEN Guessed(Raised("ValueError", r.list), 0)
    ELSE GuessFrom(i + 1, TryRule(i + 1, r.list, locale, default_day, day_start),
                   locale, default_day, day_start)

guessdatetimefstr(dtime_list, locale, default_day, day_start) ==
    GuessFrom(1, TryRule(1, dtime_list, locale, default_day, day_start),
              locale, default_day, day_start)

(***************************************************************************)
(* the state                                                               *)
(*                                                                         *)
(* An argument of construct_event that is only read late (the default      *)
(* lengths, description, location, repeat, until) is drawn at the          *)
(* statement that first reads it; its set does not depend on what came     *)
(* before, so the runs are those of drawing it at the call.                *)
(***************************************************************************)

VARIABLES
    locale,         \* the five formats the caller's configuration supplies
    import_day,     \* default_day of guessdatetimefstr: datetime.today() when the module was loaded
    call,           \* the function running or finished: "", "construct_event", "new_event"
    pc,             \* where the call is
    now,            \* the clock of the call: datetime.today(), date.today(), datetime.now()
    date_list,      \* the caller's token list, mutated in place
    dtstart, dtend, all_day,
    start_rule,     \* the loop entry of guessdatetimefstr that returned the start
    end_rule,       \* the loop entry that returned the end, 0 after the fallback
    end_typed,      \* what strptime read from the end's tokens
    defaulttimelen, defaultdatelen,   \* 0 until read
    zone,           \* the timezone both instants were localized to, "" for none
    description, location,            \* as the caller supplied them, <<>> for None
    arg_dtstart, arg_dtend,           \* new_event's dtstart and dtend arguments
    event,          \* the properties added to the returned icalendar.Event
    raised,         \* the exception that left the call, "none" for none
    fatal_calls     \* how often logger.fatal was called

vars == <<locale, import_day, call, pc, now, date_list, dtstart, dtend, all_day,
          start_rule, end_rule, end_typed, defaulttimelen, defaultdatelen, zone,
          description, location, arg_dtstart, arg_dtend, event, raised, fatal_calls>>

\* the longest token list a caller passes
MaxTokens == 4

Locales == {DottedLocale, IsoLocale}

ImportDays == {MkDatetime(2023, 12, 31, 0, 0), MkDatetime(2024, 2, 28, 0, 0)}

\* the clock at a call: late on the day the module was loaded, or the next morning
Clocks(loaded) ==
    {MkDatetime(loaded.year, loaded.month, loaded.day, 23, 0),
     AddMinutes(loaded, 1440 + 9 * 60)}

DateTokens == {Md(3, 1), Ymd(2023, 2, 28), Ymd(2024, 2, 29)}
TimeTokens == {Hm(23, 30), Hm(8, 0)}
WordTokens == {Word("::"), Word("Europe/Berlin"), Word("standup")}

Tokens == DateTokens \cup TimeTokens \cup WordTokens

RECURSIVE SeqsUpTo(_, _)
SeqsUpTo(S, n) ==
    IF n = 0 THEN {<<>>}
    ELSE LET shorter == SeqsUpTo(S, n - 1)
         IN  shorter \cup {Append(q, t) : q \in {r \in shorter : Len(r) = n - 1}, t \in S}

\* two datetimes of two tokens each, and a word
DatetimePairLists ==
    {<<d1, t1, d2, t2, w>> :
        d1 \in DateTokens, t1 \in TimeTokens, d2 \in DateTokens, t2 \in TimeTokens,
        w \in WordTokens}

\* the lists a caller passes: every list of at most MaxTokens tokens, and
\* the datetime pairs
TokenLists == SeqsUpTo(Tokens, MaxTokens) \cup DatetimePairLists

DefaultTimeLens == {60, 90}
DefaultDateLens == {1, 2}

\* the names pytz.timezone knows
KnownZones == {"Europe/Berlin"}

\* the name of the default_timezone argument
DefaultZone == "America/New_York"

NoArg == [kind |-> "none", dt |-> NoDatetime]

\* a value added to the event as dtstart, dtend or until: a date, or a
\* datetime with the zone it was localized to ("" for a naive one)
AsDate(dt) ==
    [year |-> dt.year, month |-> dt.month, day |-> dt.day,
     hour |-> 0, minute |-> 0, tz |-> "", is_date |-> TRUE]

Localized(tz, dt) ==
    [year |-> dt.year, month |-> dt.month, day |-> dt.day,
     hour |-> dt.hour, minute |-> dt.minute, tz |-> tz, is_date |-> FALSE]

NoRrule == [freq |-> "", until |-> Localized("", NoDatetime)]

NoEvent ==
    [dtstart |-> Localized("", NoDatetime), dtend |-> Localized("", NoDatetime),
     dtstamp |-> NoDatetime, summary |-> <<>>, description |-> <<>>,
     location |-> <<>>, rrule |-> NoRrule]

Init ==
    /\ locale \in Locales
    /\ import_day \in ImportDays
    /\ call = ""
    /\ pc = "idle"
    /\ now = NoDatetime
    /\ date_list = <<>>
    /\ dtstart = NoDatetime
    /\ dtend = NoDatetime
    /\ all_day = FALSE
    /\ start_rule = 0
    /\ end_rule = 0
    /\ end_typed = NoDatetime
    /\ defaulttimelen = 0
    /\ defaultdatelen = 0
    /\ zone = ""
    /\ description = <<>>
    /\ location = <<>>
    /\ arg_dtstart = NoArg
    /\ arg_dtend = NoArg
    /\ event = NoEvent
    /\ raised = "none"
    /\ fatal_calls = 0

\* an exception leaves the call
Raise(exc) == pc' = "raised" /\ raised' = exc

(***************************************************************************)
(* construct_event                                                         *)
(***************************************************************************)

\* the call: today = datetime.today() and the locale dictionary
ConstructEventCall ==
    /\ pc = "idle"
    /\ \E tokens \in TokenLists, clock \in Clocks(import_day) :
          /\ date_list' = tokens
          /\ now' = clock
    /\ call' = "construct_event"
    /\ pc' = "start"
    /\ UNCHANGED <<locale, import_day, dtstart, dtend, all_day, start_rule, end_rule,
                   end_typed, defaulttimelen, defaultdatelen, zone, description,
                   location, arg_dtstart, arg_dtend, event, raised, fatal_calls>>

\* what the first try: block does with what guessdatetimefstr handed back
StartResolved(r) ==
    /\ date_list' = r.list
    /\ IF r.exc = "none"
       THEN /\ dtstart' = r.dt
            /\ all_day' = r.all_day
            /\ start_rule' = r.rule
            /\ pc' = "end"
            /\ UNCHANGED <<raised, fatal_calls>>
       ELSE IF r.exc = "ValueError"
       THEN /\ fatal_calls' = fatal_calls + 1
            /\ Raise("FatalError")
            /\ UNCHANGED <<dtstart, all_day, start_rule>>
       ELSE /\ Raise(r.exc)
            /\ UNCHANGED <<dtstart, all_day, start_rule, fatal_calls>>

\* dtstart, all_day = guessdatetimefstr(date_list, locale), and its except clause
ResolveStart ==
    /\ pc = "start"
    /\ StartResolved(guessdatetimefstr(date_list, locale, import_day, now))
    /\ UNCHANGED <<locale, import_day, call, now, dtend, end_rule, end_typed,
                   defaulttimelen, defaultdatelen, zone, description, location,
                   arg_dtstart, arg_dtend, event>>

\* the except ValueError: clause of the second try: block
DefaultEnd ==
    IF all_day
    THEN \E days \in DefaultDateLens :
            /\ defaultdatelen' = days
            /\ dtend' = AddDays(dtstart, days - 1)
            /\ UNCHANGED defaulttimelen
    ELSE \E minutes \in DefaultTimeLens :
            /\ defaulttimelen' = minutes
            /\ dtend' = AddMinutes(dtstart, minutes)
            /\ UNCHANGED defaultdatelen

\* what the second try: block does with what guessdatetimefstr handed back
EndResolved(r) ==
    /\ date_list' = r.list
    /\ IF r.exc = "none"
       THEN /\ dtend' = r.dt
            /\ end_rule' = r.rule
            /\ end_typed' = r.typed
            /\ pc' = "repair"
            /\ UNCHANGED <<raised, defaulttimelen, defaultdatelen>>
       ELSE IF r.exc = "ValueError"
       THEN /\ DefaultEnd
            /\ pc' = "repair"
            /\ UNCHANGED <<end_rule, end_typed, raised>>
       ELSE /\ Raise(r.exc)
            /\ UNCHANGED <<dtend, end_rule, end_typed, defaulttimelen, defaultdatelen>>

\* dtend, _ = guessdatetimefstr(date_list, locale, dtstart), and its except clause
ResolveEnd ==
    /\ pc = "end"
    /\ EndResolved(guessdatetimefstr(date_list, locale, dtstart, now))
    /\ UNCHANGED <<locale, import_day, call, now, dtstart, all_day, start_rule, zone,
                   description, location, arg_dtstart, arg_dtend, event, fatal_calls>>

\* datetime(year, *dt.timetuple()[1:6]): ValueError for a day the year lacks
WithYear(dt, y) ==
    IF ValidDate(y, dt.month, dt.day)
    THEN [exc |-> "none", dt |-> MkDatetime(y, dt.month, dt.day, dt.hour, dt.minute)]
    ELSE [exc |-> "ValueError", dt |-> dt]

\* dtend += timedelta(days=1): an all-day event ends on the day after its last
ExclusiveEnd(end) == AddDays(end, 1)

\* if dtend.year == today.year and dtstart.year != today.year: dtend gets dtstart's year
InheritStartYear(start, end, today) ==
    IF end.year = today.year /\ start.year # today.year
    THEN WithYear(end, start.year)
    ELSE [exc |-> "none", dt |-> end]

\* the all-day if dtend < dtstart: dtend gets the next year
NextYear(start, r) ==
    IF r.exc # "none" THEN r
    ELSE IF DtLess(r.dt, start) THEN WithYear(r.dt, r.dt.year + 1)
    ELSE r

\* the if all_day: block
AllDayRepair(start, end, today) ==
    NextYear(start, InheritStartYear(start, ExclusiveEnd(end), today))

\* the first if dtend < dtstart: dtstart's date with dtend's time of day
SameDayAsStart(start, end) ==
    IF DtLess(end, start) THEN OnDay(start, end) ELSE end

\* the repair without its second if dtend < dtstart:
NextDaySkipped(start, end) == end

\* the second if dtend < dtstart: one day later
NextDay(start, end) ==
    IF DtLess(end, start) THEN AddDays(end, 1) ELSE end

\* the two if dtend < dtstart: steps that follow the if all_day: block
TimedRepair(start, r) ==
    IF r.exc # "none" THEN r
    ELSE [exc |-> "none", dt |-> NextDay(start, SameDayAsStart(start, r.dt))]

\* the repair steps of construct_event, from if all_day: to the second if dtend < dtstart:
RepairEnd(start, end, allday, today) ==
    TimedRepair(start, IF allday THEN AllDayRepair(start, end, today)
                       ELSE [exc |-> "none", dt |-> end])

Repaired(r) ==
    IF r.exc = "none"
    THEN dtend' = r.dt /\ pc' = "localize" /\ UNCHANGED raised
    ELSE Raise(r.exc) /\ UNCHANGED dtend

Repair ==
    /\ pc = "repair"
    /\ Repaired(RepairEnd(dtstart, dtend, all_day, now))
    /\ UNCHANGED <<locale, import_day, call, now, date_list, dtstart, all_day,
                   start_rule, end_rule, end_typed, defaulttimelen, defaultdatelen,
                   zone, description, location, arg_dtstart, arg_dtend, event,
                   fatal_calls>>

\* pytz.timezone(name): the zone, or UnknownTimeZoneError
IsZone(token) == token.kind = "word" /\ token.text \in KnownZones

\* if all_day: the dates are taken; else: the zone of the next token, or the default
Localize ==
    /\ pc = "localize"
    /\ IF all_day
       THEN pc' = "text" /\ UNCHANGED <<zone, date_list, raised>>
       ELSE IF date_list = <<>>
       THEN Raise("IndexError") /\ UNCHANGED <<zone, date_list>>
       ELSE IF IsZone(date_list[1])
       THEN /\ zone' = date_list[1].text
            /\ date_list' = Tail(date_list)
            /\ pc' = "text"
            /\ UNCHANGED raised
       ELSE /\ zone' = DefaultZone
            /\ pc' = "text"
            /\ UNCHANGED <<date_list, raised>>
    /\ UNCHANGED <<locale, import_day, call, now, dtstart, dtend, all_day,
                   start_rule, end_rule, end_typed, defaulttimelen, defaultdatelen,
                   description, location, arg_dtstart, arg_dtend, event, fatal_calls>>

\* the texts are token sequences: ' '.join(date_list) is the list itself
Delimiter == Word("::")

\* where text.split(' :: ', 1) cuts: the first "::" token with a token on
\* either side (the blanks of ' :: ' are those of the join), 0 for none
SplitAt(text) ==
    LET cuts == {i \in 2..(Len(text) - 1) : text[i] = Delimiter}
    IN  IF cuts = {} THEN 0 ELSE CHOOSE i \in cuts : \A j \in cuts : i <= j

\* text.split(' :: ', 1) cut at token i (0: no cut)
SplitText(text, i) ==
    IF i = 0 THEN <<text>>
    ELSE <<SubSeq(text, 1, i - 1), SubSeq(text, i + 1, Len(text))>>

\* if not description or not location: the text is split
SplitsText(descr, loc) == descr = <<>> \/ loc = <<>>

\* summary and description as the if not description or not location:
\* block leaves them, halves being text.split(' :: ', 1)
SummaryAndDescription(text, halves, descr, loc) ==
    IF SplitsText(descr, loc)
    THEN [summary |-> halves[1],
          description |-> IF Len(halves) > 1 THEN halves[2] ELSE descr]
    ELSE [summary |-> text, description |-> descr]

Descriptions == {<<>>, <<Word("agenda")>>}
Locations == {<<>>, <<Word("office")>>}
Repeats == {"", "none", "daily", "fortnightly"}
Untils == {<<>>, <<Ymd(2024, 2, 29)>>, <<Word("someday")>>}

\* fun(until, dformat) of the i-th (fun, dformat) of the until loop
TryUntil(i, until, formats, day_start) ==
    IF i = 3 THEN timefstr(until, formats.timeformat, day_start)
    ELSE datetimefstr(until, RuleFormat(formats, i))

\* the loop over (fun, dformat) that parses until, from its i-th entry on,
\* r being what that entry's parser did
RECURSIVE UntilFrom(_, _, _, _)
UntilFrom(i, r, formats, day_start) ==
    IF r.exc # "ValueError" \/ i = 5 THEN r
    ELSE UntilFrom(i + 1, TryUntil(i + 1, r.list, formats, day_start), formats, day_start)

\* the rule with until_date, or FatalError when no entry parsed until
UntilParsed(repeat, r) ==
    IF r.exc = "none"
    THEN [exc |-> "none", fatal |-> 0,
          rrule |-> [freq |-> repeat, until |-> Localized("", r.dt)]]
    ELSE IF r.exc = "ValueError"
    THEN [exc |-> "FatalError", fatal |-> 1, rrule |-> NoRrule]
    ELSE [exc |-> r.exc, fatal |-> 0, rrule |-> NoRrule]

\* the rrule block: the rule added, FatalError, or what the until parsers raised
Recurrence(repeat, until, formats, day_start) ==
    IF repeat = "" \/ repeat = "none" THEN [exc |-> "none", fatal |-> 0, rrule |-> NoRrule]
    ELSE IF repeat \notin {"daily", "weekly", "monthly", "yearly"}
    THEN [exc |-> "FatalError", fatal |-> 1, rrule |-> NoRrule]
    ELSE IF until = <<>>
    THEN [exc |-> "none", fatal |-> 0,
          rrule |-> [freq |-> repeat, until |-> Localized("", NoDatetime)]]
    ELSE UntilParsed(repeat,
                     UntilFrom(1, TryUntil(1, until, formats, day_start), formats, day_start))

\* dtstart and dtend as they are added to the event
Emitted(dt, allday, tz) == IF allday THEN AsDate(dt) ELSE Localized(tz, dt)

\* the event is filled and returned, or the rrule block raised
Built(sd, rr, descr, loc) ==
    /\ description' = descr
    /\ location' = loc
    /\ fatal_calls' = fatal_calls + rr.fatal
    /\ IF rr.exc = "none"
       THEN /\ event' = [dtstart |-> Emitted(dtstart, all_day, zone),
                         dtend |-> Emitted(dtend, all_day, zone),
                         dtstamp |-> now,
                         summary |-> sd.summary,
                         description |-> sd.description,
                         location |-> loc,
                         rrule |-> rr.rrule]
            /\ pc' = "done"
            /\ UNCHANGED raised
       ELSE Raise(rr.exc) /\ UNCHANGED event

\* from event = icalendar.Event() to return event
BuildEvent ==
    /\ pc = "text"
    /\ \E descr \in Descriptions, loc \in Locations, repeat \in Repeats, until \in Untils :
          Built(SummaryAndDescription(date_list, SplitText(date_list, SplitAt(date_list)),
                                      descr, loc),
                Recurrence(repeat, until, locale, now), descr, loc)
    /\ UNCHANGED <<locale, import_day, call, now, date_list, dtstart, dtend, all_day,
                   start_rule, end_rule, end_typed, defaulttimelen, defaultdatelen,
                   zone, arg_dtstart, arg_dtend>>

(***************************************************************************)
(* new_event                                                               *)
(***************************************************************************)

\* isinstance(dtstart, date): datetime is a subclass of date
IsInstanceOfDate(arg) == arg.kind \in {"date", "datetime"}

\* dtstart after the if dtstart is None: ... elif isinstance(dtstart, date): block
StartOfNewEvent(arg, inonehour) ==
    IF arg.kind = "none" THEN inonehour
    ELSE IF IsInstanceOfDate(arg) THEN OnDay(arg.dt, inonehour)
    ELSE arg.dt

\* dtend after if dtend is None:
EndOfNewEvent(arg, start) ==
    IF arg.kind = "none" THEN AddMinutes(start, 60) ELSE arg.dt

\* now = datetime(now.tm_year, now.tm_mon, now.tm_mday, now.tm_hour)
FullHour(clock) == MkDatetime(clock.year, clock.month, clock.day, clock.hour, 0)

StartArgs ==
    {NoArg,
     [kind |-> "date", dt |-> MkDatetime(2024, 6, 1, 0, 0)],
     [kind |-> "datetime", dt |-> MkDatetime(2024, 6, 1, 9, 0)],
     [kind |-> "datetime", dt |-> MkDatetime(2024, 2, 29, 23, 30)]}

EndArgs == {NoArg, [kind |-> "datetime", dt |-> MkDatetime(2024, 6, 1, 12, 0)]}

Summaries == {<<>>, <<Word("standup")>>}

\* the event new_event returns for the start s
NewEventBuilt(clock, start, end, s, text, tz) ==
    /\ now' = clock
    /\ arg_dtstart' = start
    /\ arg_dtend' = end
    /\ dtstart' = s
    /\ dtend' = EndOfNewEvent(end, s)
    /\ zone' = tz
    /\ event' = [dtstart |-> Localized(tz, s),
                 dtend |-> Localized(tz, EndOfNewEvent(end, s)),
                 dtstamp |-> clock,
                 summary |-> IF text = <<>> THEN <<Word("New Event")>> ELSE text,
                 description |-> <<>>,
                 location |-> <<>>,
                 rrule |-> NoRrule]

\* new_event(dtstart, dtend, summary, timezone)
NewEvent ==
    /\ pc = "idle"
    /\ \E clock \in Clocks(import_day), start \in StartArgs, end \in EndArgs,
          text \in Summaries, tz \in {"", DefaultZone} :
          NewEventBuilt(clock, start, end,
                        StartOfNewEvent(start, AddMinutes(FullHour(clock), 60)), text, tz)
    /\ call' = "new_event"
    /\ pc' = "done"
    /\ UNCHANGED <<locale, import_day, date_list, all_day, start_rule, end_rule,
                   end_typed, defaulttimelen, defaultdatelen, description, location,
                   raised, fatal_calls>>

Next ==
    \/ ConstructEventCall
    \/ ResolveStart
    \/ ResolveEnd
    \/ Repair
    \/ Localize
    \/ BuildEvent
    \/ NewEvent

Spec == Init /\ [][Next]_vars

(***************************************************************************)
(* the claims                                                              *)
(***************************************************************************)

\* construct_event returned an event
Constructed == call = "construct_event" /\ pc = "done"

\* a < b on values added to the event (dates count from their midnight)
EmittedBefore(a, b) ==
    ToOrdinal(a.year, a.month, a.day) * 1440 + a.hour * 60 + a.minute
        < ToOrdinal(b.year, b.month, b.day) * 1440 + b.hour * 60 + b.minute

\* C1: the dtend of every event construct_event returns is not before its
\* dtstart (dates compared as dates, datetimes of the one zone by their
\* wall-clock values)
C1_EndNotBeforeStart ==
    Constructed => ~EmittedBefore(event.dtend, event.dtstart)

\* an all-day event was returned whose end was typed as a date before the start
C1_Witness ==
    /\ Constructed
    /\ all_day
    /\ end_rule = 5
    /\ DtLess(end_typed, dtstart)
    /\ EmittedBefore(event.dtstart, event.dtend)

\* the number of tokens the i-th loop entry of guessdatetimefstr occupies
RuleTokens(i) == Len(RuleFormat(locale, i))

\* the list with its first n tokens removed
Without(list, n) == SubSeq(list, n + 1, Len(list))

\* C2: a guessdatetimefstr call that returns leaves the list without the
\* tokens of the matched format (blanks of the format + 1, in order); a
\* call that signals the parse error leaves the list as it was
C2_TokenConsumption ==
    [][/\ (pc = "start" /\ pc' = "end")
            => date_list' = Without(date_list, RuleTokens(start_rule'))
       /\ (pc = "end" /\ pc' = "repair" /\ end_rule' # 0)
            => date_list' = Without(date_list, RuleTokens(end_rule'))
       /\ (pc = "start" /\ raised' = "FatalError") => date_list' = date_list
       /\ (pc = "end" /\ pc' = "repair" /\ end_rule' = 0) => date_list' = date_list
      ]_vars

\* C3: for a timed event, a next token naming a known zone localizes both
\* instants to it and is removed; otherwise both are localized to the
\* default zone and the list is left alone
C3_ZoneOrDefault ==
    [][(pc = "localize" /\ ~all_day)
          => IF date_list # <<>> /\ date_list[1].text \in KnownZones
             THEN /\ pc' = "text"
                  /\ zone' = date_list[1].text
                  /\ date_list' = Tail(date_list)
             ELSE /\ pc' = "text"
                  /\ zone' = DefaultZone
                  /\ date_list' = date_list
      ]_vars

\* no format of the locale reads the front of the list
NoGrammarMatches(list) ==
    \A i \in 1..5 : ~Strptime(Front(list, RuleTokens(i)), RuleFormat(locale, i)).ok

\* C4: when no grammar reads the tokens left after the start, the call goes
\* on with the default window: start + defaulttimelen minutes for a timed
\* start, start + (defaultdatelen - 1) days for an all-day one
C4_DefaultWindow ==
    [][(pc = "end" /\ NoGrammarMatches(date_list))
          => /\ pc' = "repair"
             /\ all_day => /\ defaultdatelen' \in DefaultDateLens
                           /\ dtend' = AddDays(dtstart, defaultdatelen' - 1)
             /\ ~all_day => /\ defaulttimelen' \in DefaultTimeLens
                            /\ dtend' = AddMinutes(dtstart, defaulttimelen')
      ]_vars

\* C5: when no grammar reads the front of the list as the start, logger.fatal
\* is called once and FatalError leaves the call
C5_FatalOnUnparseableStart ==
    [][(pc = "start" /\ NoGrammarMatches(date_list))
          => /\ pc' = "raised"
             /\ raised' = "FatalError"
             /\ fatal_calls' = fatal_calls + 1
      ]_vars

\* C6: the remaining text is split on its first ' :: ' only when the caller
\* gave neither a description nor a location; otherwise the whole text is
\* the summary and the caller's description is the event's
C6_SplitOnlyWithoutBoth ==
    Constructed =>
        IF description = <<>> /\ location = <<>>
        THEN /\ event.summary = SplitText(date_list, SplitAt(date_list))[1]
             /\ SplitAt(date_list) # 0
                   => event.description = SplitText(date_list, SplitAt(date_list))[2]
        ELSE /\ event.summary = date_list
             /\ event.description = description

\* the time of day of a datetime, in minutes
TimeOfDay(dt) == dt.hour * 60 + dt.minute

\* the start was read as a datetime or a time, the end as a time only
TimeOnlyEnd == Constructed /\ start_rule \in {1, 2, 3} /\ end_rule = 3

\* C7: after a datetime or a time, an end typed as a time only keeps its
\* time of day and falls on the start's date, or on the next day when its
\* time of day is before the start's
C7_TimeOnlyEnd ==
    TimeOnlyEnd =>
        /\ TimeOfDay(event.dtend) = TimeOfDay(end_typed)
        /\ DateOf(event.dtend) =
              IF TimeOfDay(end_typed) < TimeOfDay(event.dtstart)
              THEN DateOf(AddDays(dtstart, 1))
              ELSE DateOf(event.dtstart)

\* a start typed as date and time, an end typed as an earlier time only:
\* the event ends on the next day
C7_Witness ==
    /\ TimeOnlyEnd
    /\ start_rule \in {1, 2}
    /\ TimeOfDay(end_typed) < TimeOfDay(dtstart)
    /\ DateOf(event.dtend) = DateOf(AddDays(dtstart, 1))
    /\ date_list # <<>>

\* the end typed without a year, in the year of the start
EndInStartYear == MkDatetime(dtstart.year, end_typed.month, end_typed.day,
                             end_typed.hour, end_typed.minute)

\* C8: after a datetime, an end typed as a datetime without a year, before a
\* description, gets the year of the start, or the next year when that would end the event before
\* it begins, and keeps its typed month, day and time of day
C8_YearlessEndDatetime ==
    (/\ Constructed
     /\ start_rule \in {1, 2}
     /\ end_rule = 1
     /\ end_typed.year = PlaceholderYear
     /\ event.summary # <<>>)
        => event.dtend =
              Localized(zone,
                        IF DtLess(EndInStartYear, dtstart)
                        THEN MkDatetime(dtstart.year + 1, end_typed.month, end_typed.day,
                                        end_typed.hour, end_typed.minute)
                        ELSE EndInStartYear)

\* the second date as typed: with its own year, or the start's for none
SecondDate ==
    IF end_typed.year = PlaceholderYear
    THEN MkDatetime(dtstart.year, end_typed.month, end_typed.day, 0, 0)
    ELSE MkDatetime(end_typed.year, end_typed.month, end_typed.day, 0, 0)

\* C9: two dates before a description, the second not before the first,
\* give an all-day event
\* from the first date to the day after the second
C9_DateRange ==
    (/\ Constructed
     /\ start_rule \in {4, 5}
     /\ end_rule \in {4, 5}
     /\ ~DtLess(SecondDate, dtstart)
     /\ event.summary # <<>>)
        => /\ event.dtstart = AsDate(dtstart)
           /\ event.dtend = AsDate(AddDays(SecondDate, 1))

\* C10: new_event emits a start that carries a time of day as it was given,
\* and without a dtend ends the event 60 minutes after it
C10_DatetimeStartKept ==
    (call = "new_event" /\ pc = "done" /\ arg_dtstart.kind = "datetime")
        => /\ event.dtstart = Localized(zone, arg_dtstart.dt)
           /\ arg_dtend.kind = "none"
                 => event.dtend = Localized(zone, AddMinutes(arg_dtstart.dt, 60))

====
